---- MODULE Spec2Model ----
\* A model of daima.py: the loader/normaliser load_data, the query function
\* search_data, and the rerun loop of main with its session state.
\*
\* Text is modelled as a sequence of one-character strings (<<"6","0">> is
\* "60"), so that padding, stripping, case folding and pattern matching are
\* computed character by character.  The Chinese literals of the source are
\* written in ASCII: "stock_code" is the column/mode label of line 123/148,
\* "all_years" the sentinel of line 24, and so on.
EXTENDS Integers, Sequences, FiniteSets, TLC

VARIABLES
    pc,              \* where the script is: load steps, "ui", "halt", "call", "ret"
    file_ext,        \* load_data: file_ext (line 100)
    encPos,          \* load_data: position of the for loop of line 104
    tried,           \* load_data: outcome of each read_csv call so far
    df,              \* load_data: the local df (line 101), a raw table or NoFrame
    data_result,     \* main: data_result (line 254), what load_data returned
    dataset,         \* main: df (line 260), the cleaned table
    search_type,     \* st.session_state.search_type
    search_input,    \* st.session_state.search_input
    selected_year,   \* st.session_state.selected_year
    search_results,  \* st.session_state.search_results
    execute_search,  \* main: execute_search (line 304) in the last rerun
    reset_pressed,   \* main: value of st.button of line 306 in the last rerun
    shown,           \* what the last run of the script rendered in the main pane
    args,            \* the arguments of a direct call of search_data
    ret              \* what that call returned

vars == <<pc, file_ext, encPos, tried, df, data_result, dataset, search_type,
          search_input, selected_year, search_results, execute_search,
          reset_pressed, shown, args, ret>>

\* ---------------------------------------------------------------- bounds

MaxRawRows == 2
MaxRows == 2
MaxTermLen == 2
MaxInputLen == 1

\* ------------------------------------------------------ program constants

CodeWidth == 6
YearMin == 1999
YearMax == 2023
SampleRows == 10

\* ------------------------------------------------------------------ text

Digits == {"0", "1", "2", "3", "4", "5", "6", "7", "8", "9"}

DigitChar(d) ==
    CASE d = 0 -> "0" [] d = 1 -> "1" [] d = 2 -> "2" [] d = 3 -> "3"
      [] d = 4 -> "4" [] d = 5 -> "5" [] d = 6 -> "6" [] d = 7 -> "7"
      [] d = 8 -> "8" [] d = 9 -> "9"

RECURSIVE IntToStr(_)
IntToStr(n) ==
    IF n < 10 THEN <<DigitChar(n)>>
    ELSE Append(IntToStr(n \div 10), DigitChar(n % 10))

DigitVal(c) == CHOOSE d \in 0..9 : DigitChar(d) = c

RECURSIVE StrToInt(_)
StrToInt(s) ==
    IF Len(s) = 1 THEN DigitVal(s[1])
    ELSE 10 * StrToInt(SubSeq(s, 1, Len(s) - 1)) + DigitVal(s[Len(s)])

AllDigits(s) == \A i \in 1..Len(s) : s[i] \in Digits

Whitespace == {" "}

RECURSIVE LStrip(_)
LStrip(s) ==
    IF s # <<>> /\ s[1] \in Whitespace THEN LStrip(Tail(s)) ELSE s

RECURSIVE RStrip(_)
RStrip(s) ==
    IF s # <<>> /\ s[Len(s)] \in Whitespace
    THEN RStrip(SubSeq(s, 1, Len(s) - 1)) ELSE s

Strip(s) == RStrip(LStrip(s))

LowerChar(c) == IF c = "A" THEN "a" ELSE c

Lower(s) == [i \in 1..Len(s) |-> LowerChar(s[i])]

\* zfill: left-pad with "0" to the width; a longer text is returned as it is.
\* (The sign handling of zfill is not modelled: no text here has a sign.)
ZFill(s, width) ==
    IF Len(s) >= width THEN s
    ELSE [i \in 1..width |->
            IF i <= width - Len(s) THEN "0" ELSE s[i - (width - Len(s))]]

\* The pattern language of str.contains (regex=True by default), over the
\* characters used here: "." matches any one character, "(" opens a group
\* (no text here holds ")", so a pattern with "(" does not compile), every
\* other character matches itself.
ReCompiles(pat) == \A i \in 1..Len(pat) : pat[i] # "("

ReMatchAt(pat, s, k) ==
    \A i \in 1..Len(pat) : pat[i] = "." \/ pat[i] = s[k + i]

ReSearch(pat, s) ==
    \E k \in 0..(Len(s) - Len(pat)) : ReMatchAt(pat, s, k)

\* All sequences over S of length at most n.
RECURSIVE SeqsUpTo(_, _)
SeqsUpTo(S, n) ==
    IF n = 0 THEN {<<>>}
    ELSE LET shorter == SeqsUpTo(S, n - 1)
         IN  shorter \cup {Append(q, x) : q \in {r \in shorter : Len(r) = n - 1}, x \in S}

\* ------------------------------------------------------------ raw tables

\* A raw cell as read_csv / read_excel delivers it: an integer, a float or a
\* text.  A float code holds a whole number n (8.0); a float year holds
\* tenths (20237 is 2023.7); "nan" is the missing value of a float column.
IntCell(n) == [t |-> "int", n |-> n, s |-> <<>>]
FloatCell(n) == [t |-> "float", n |-> n, s |-> <<>>]
StrCell(s) == [t |-> "str", n |-> 0, s |-> s]
NanCell == [t |-> "nan", n |-> 0, s |-> <<>>]

required_cols == <<"stock_code", "entity_name", "year", "index_value">>

RequiredSet == {required_cols[i] : i \in 1..Len(required_cols)}

RawRow(code, name, year, index) ==
    [code |-> code, name |-> name, year |-> year, index |-> index]

\* df = None, and a parsed table with its column names and rows.
NoFrame == [none |-> TRUE, cols |-> {}, rows |-> <<>>]
Frame(cols, rows) == [none |-> FALSE, cols |-> cols, rows |-> rows]

\* ---------------------------------------------------- load_data: cleaning

\* df[col].astype(str) on one cell (line 129).
AsTypeStr(c) ==
    CASE c.t = "int" -> IntToStr(c.n)
      [] c.t = "float" -> IntToStr(c.n) \o <<".", "0">>
      [] c.t = "nan" -> <<"n", "a", "n">>
      [] c.t = "str" -> c.s

\* Line 129: .astype(str).str.zfill(6).
CleanCodeNoPad(c) == AsTypeStr(c)

CleanCode(c) == ZFill(AsTypeStr(c), CodeWidth)

\* Line 130: .astype(str).str.strip(); names are read as text.
CleanName(s) == Strip(s)

\* Line 131: whether astype(int) accepts the cell.  An integer and a finite float
\* convert; nan raises; a text converts when int() parses it (digits, with
\* surrounding blanks allowed).
IntCoercible(c) ==
    CASE c.t = "int" -> TRUE
      [] c.t = "float" -> TRUE
      [] c.t = "nan" -> FALSE
      [] c.t = "str" -> Strip(c.s) # <<>> /\ AllDigits(Strip(c.s))

\* Line 131: the value astype(int) gives a coercible cell (a float is truncated).
AsTypeInt(c) ==
    CASE c.t = "int" -> c.n
      [] c.t = "float" -> c.n \div 10
      [] c.t = "str" -> StrToInt(Strip(c.s))

\* Line 132: round(2) of a score held in thousandths, to the nearest hundredth
\* (ties to the even hundredth), still held in thousandths.
Round2(v) ==
    LET q == v \div 10
        r == v % 10
    IN  IF r < 5 THEN 10 * q
        ELSE IF r > 5 THEN 10 * (q + 1)
        ELSE IF q % 2 = 0 THEN 10 * q ELSE 10 * (q + 1)

\* Line 133: the range filter on the coerced year.
YearInRangeExclusive(y) == y > YearMin /\ y < YearMax

YearInRange(y) == y >= YearMin /\ y <= YearMax

\* Lines 129-132 on one row; i is the row's index label in the raw table.
CleanRow(i, r) ==
    [i |-> i, code |-> CleanCode(r.code), name |-> CleanName(r.name),
     year |-> AsTypeInt(r.year), index |-> Round2(r.index)]

\* Lines 129-133 on a table whose years all coerce: the cleaned rows in the
\* raw order, each keeping its index label (0-based, as a RangeIndex).
RECURSIVE CleanRows(_, _)
CleanRows(rows, k) ==
    IF k > Len(rows) THEN <<>>
    ELSE LET c == CleanRow(k - 1, rows[k])
         IN  IF YearInRange(c.year) THEN <<c>> \o CleanRows(rows, k + 1)
             ELSE CleanRows(rows, k + 1)

\* nunique of a column of the cleaned table (line 138).
NUnique(rows) == Cardinality({rows[i].code : i \in 1..Len(rows)})

ErrorResult(msg) == [status |-> "error", msg |-> msg]

SuccessResult(rows) ==
    [status |-> "success", data |-> rows,
     msg |-> <<"loaded: ">> \o IntToStr(Len(rows)) \o <<" records | ">>
             \o IntToStr(NUnique(rows)) \o <<" companies">>]

\* Lines 123-142 on a parsed table: the column check, the cleaning, and the
\* outer except that turns a raising astype(int) into an error result.
CleanFrameDropBadRows(f) ==
    LET missing_cols == SelectSeq(required_cols, LAMBDA c : c \notin f.cols)
    IN  IF missing_cols # <<>>
        THEN ErrorResult(<<"missing columns: ">> \o missing_cols)
        ELSE SuccessResult(
               CleanRows(SelectSeq(f.rows, LAMBDA r : IntCoercible(r.year)), 1))

CleanFrame(f) ==
    LET missing_cols == SelectSeq(required_cols, LAMBDA c : c \notin f.cols)
    IN  IF missing_cols # <<>>
        THEN ErrorResult(<<"missing columns: ">> \o missing_cols)
        ELSE IF \E k \in 1..Len(f.rows) : ~IntCoercible(f.rows[k].year)
        THEN ErrorResult(<<"load failed: ", "invalid literal for int()">>)
        ELSE SuccessResult(CleanRows(f.rows, 1))

\* --------------------------------------------------- inputs of the loader

\* Raw stock codes: shorter than the width, exactly the width, longer than
\* it, a text with a letter, and a float (stringified with ".0").
RawCodes ==
    {IntCell(8), IntCell(600008), IntCell(1234567),
     StrCell(<<"0", "0", "A">>), FloatCell(8)}

\* Raw years: around both ends of the range, floats that truncate into and
\* out of it, a text int() parses, a text it does not, and a missing value.
RawYears ==
    {IntCell(1998), IntCell(1999), IntCell(2023), IntCell(2024),
     FloatCell(20237), FloatCell(19989),
     StrCell(<<"2", "0", "1", "0">>), StrCell(<<"x">>), NanCell}

BaseRow == RawRow(IntCell(600008), <<"A">>, IntCell(1999), 5000)

\* The raw rows a table is drawn from: the base row varied in one column.
LoadRawRows ==
    {[BaseRow EXCEPT !.code = c] : c \in RawCodes}
    \cup {[BaseRow EXCEPT !.year = y] : y \in RawYears}
    \cup {[BaseRow EXCEPT !.name = <<" ", "A", " ">>],
          [BaseRow EXCEPT !.index = 12346]}

\* The sets of required columns a table may lack.
MissingSets ==
    {{}, {"stock_code"}, {"year"}, {"entity_name", "index_value"}, RequiredSet}

\* What a successful read_csv / read_excel can return.
RawFrames ==
    {Frame(RequiredSet \ m, rows) : m \in MissingSets,
                                    rows \in SeqsUpTo(LoadRawRows, MaxRawRows)}

FileExts == {".csv", ".xlsx", ".xlsm", ".txt"}

\* ------------------------------------------------------------- load_data

encodings == <<"gbk", "gb2312", "utf-8-sig", "latin-1">>

Unset == [status |-> "unset"]

AllYears == [all |-> TRUE, y |-> 0]
Year(y) == [all |-> FALSE, y |-> y]

\* What the main pane shows: the kind of view and the rows of its table.
Shown(view, rows) == [view |-> view, rows |-> rows]

NoResults == [none |-> TRUE, rows |-> <<>>]
Results(rows) == [none |-> FALSE, rows |-> rows]

NoCall == [search_input |-> <<>>, search_type |-> "stock_code",
           selected_year |-> AllYears]

\* Lines 23-30: the session state of a new session.
SessionInit ==
    /\ selected_year = AllYears
    /\ search_input = <<>>
    /\ search_type = "stock_code"
    /\ search_results = NoResults

sessionVars == <<search_type, search_input, selected_year, search_results,
                 execute_search, reset_pressed>>
loadVars == <<file_ext, encPos, tried, df>>
callVars == <<args, ret>>

\* The script starts: main calls load_data (line 254), nothing is cached.
InitLoad ==
    /\ pc = "load"
    /\ file_ext \in FileExts
    /\ encPos = 1
    /\ tried = <<>>
    /\ df = NoFrame
    /\ data_result = Unset
    /\ dataset = <<>>
    /\ SessionInit
    /\ execute_search = FALSE
    /\ reset_pressed = FALSE
    /\ shown = Shown("nothing", <<>>)
    /\ args = NoCall
    /\ ret = NoResults

\* Lines 93-120: the existence check and the dispatch on the extension.
LoadOpen ==
    /\ pc = "load"
    /\ \E exists \in BOOLEAN :
         IF ~exists
         THEN /\ data_result' = ErrorResult(<<"file not found: ", "check the path">>)
              /\ pc' = "loaded"
         ELSE IF file_ext = ".csv"
         THEN /\ pc' = "read_csv"
              /\ UNCHANGED data_result
         ELSE IF file_ext \in {".xlsx", ".xlsm"}
         THEN /\ pc' = "read_excel"
              /\ UNCHANGED data_result
         ELSE /\ data_result' = ErrorResult(<<"unsupported format: ", file_ext>>)
              /\ pc' = "loaded"
    /\ UNCHANGED <<loadVars, dataset, sessionVars, shown, callVars>>

\* Lines 104-109: whether the for loop ends after the iteration at pos:
\* break on a successful parse, or the list is exhausted.
LoopEndsNoBreak(pos, ok) == pos = Len(encodings)

LoopEnds(pos, ok) == ok \/ pos = Len(encodings)

\* Lines 104-109: one iteration of the loop: read_csv under encodings[encPos]
\* returns a table, or raises and the bare except moves on.
ReadCsv ==
    /\ pc = "read_csv"
    /\ \E out \in RawFrames \cup {NoFrame} :
         /\ tried' = Append(tried, [enc |-> encodings[encPos], out |-> out])
         /\ df' = IF out.none THEN df ELSE out
         /\ pc' = IF LoopEnds(encPos, ~out.none) THEN "after_csv" ELSE "read_csv"
         /\ encPos' = IF LoopEnds(encPos, ~out.none) THEN encPos ELSE encPos + 1
    /\ UNCHANGED <<file_ext, data_result, dataset, sessionVars, shown, callVars>>

\* Lines 110-111: after the loop.
AfterCsv ==
    /\ pc = "after_csv"
    /\ IF df.none
       THEN /\ data_result' = ErrorResult(<<"cannot detect the CSV encoding">>)
            /\ pc' = "loaded"
       ELSE /\ pc' = "clean"
            /\ UNCHANGED data_result
    /\ UNCHANGED <<loadVars, dataset, sessionVars, shown, callVars>>

\* Lines 112-118: read_excel returns a table, or raises ImportError, or
\* raises something else.
ReadExcel ==
    /\ pc = "read_excel"
    /\ \E out \in RawFrames \cup {NoFrame}, importError \in BOOLEAN :
         IF out.none
         THEN /\ data_result' =
                   IF importError
                   THEN ErrorResult(<<"reading Excel needs: pip install openpyxl==3.0.10">>)
                   ELSE ErrorResult(<<"Excel read failed: ", "exception text">>)
              /\ pc' = "loaded"
              /\ UNCHANGED df
         ELSE /\ ~importError
              /\ df' = out
              /\ pc' = "clean"
              /\ UNCHANGED data_result
    /\ UNCHANGED <<file_ext, encPos, tried, dataset, sessionVars, shown, callVars>>

\* Lines 122-142: the column check and the cleaning.
LoadClean ==
    /\ pc = "clean"
    /\ data_result' = CleanFrame(df)
    /\ pc' = "loaded"
    /\ UNCHANGED <<loadVars, dataset, sessionVars, shown, callVars>>

\* Lines 254-260: main reads the result; an error is shown and main returns.
MainAfterLoad ==
    /\ pc = "loaded"
    /\ IF data_result.status = "error"
       THEN /\ shown' = Shown("error", <<>>)
            /\ pc' = "halt"
            /\ UNCHANGED dataset
       ELSE /\ shown' = Shown("info", <<>>)
            /\ dataset' = data_result.data
            /\ pc' = "ui"
    /\ UNCHANGED <<loadVars, data_result, sessionVars, callVars>>

\* A later rerun of the script after a failed load: load_data's cached result
\* is the same error, and main returns at line 257 again.
RerunAfterError ==
    /\ pc = "halt"
    /\ shown' = Shown("error", <<>>)
    /\ UNCHANGED <<pc, loadVars, data_result, dataset, sessionVars, callVars>>

NextLoad ==
    \/ LoadOpen
    \/ ReadCsv
    \/ AfterCsv
    \/ ReadExcel
    \/ LoadClean
    \/ MainAfterLoad
    \/ RerunAfterError

SpecLoad == InitLoad /\ [][NextLoad]_vars

\* ------------------------------------------------------------ search_data

\* Lines 149 and 152: the pattern handed to str.contains.
SearchPatternNoPad(input, type) == Lower(Strip(input))

SearchPattern(input, type) ==
    IF type = "stock_code" THEN ZFill(Strip(input), CodeWidth)
    ELSE Lower(Strip(input))

\* Lines 150 and 153: the text str.contains searches, per row.
SearchSubject(r, type) ==
    IF type = "stock_code" THEN r.code ELSE Lower(r.name)

\* Lines 150 and 153: the boolean mask of str.contains(pattern, na=False).
TextMatches(r, input, type) ==
    ReSearch(SearchPattern(input, type), SearchSubject(r, type))

\* Lines 155-156: the year mask.
YearMatchesAtLeast(r, year) == year.all \/ r.year >= year.y

YearMatches(r, year) == year.all \/ r.year = year.y

IsSortedDesc(rows) ==
    \A i \in 1..(Len(rows) - 1) : rows[i].year >= rows[i + 1].year

Injective(p) == \A i, j \in DOMAIN p : p[i] = p[j] => i = j

\* Line 158: sort_values('year', ascending=False) with the default
\* kind='quicksort', which is not a stable sort: the rows come back in
\* descending year, and rows of one year in an order the sort does not
\* promise.  Every such arrangement is a possible outcome.
SortValuesAscending(rows) ==
    {[i \in 1..Len(rows) |-> rows[p[i]]] :
        p \in {q \in [1..Len(rows) -> 1..Len(rows)] :
                 /\ Injective(q)
                 /\ \A i \in 1..(Len(rows) - 1) :
                       rows[q[i]].year <= rows[q[i + 1]].year}}

SortValues(rows) ==
    {s \in {[i \in 1..Len(rows) |-> rows[p[i]]] :
              p \in {q \in [1..Len(rows) -> 1..Len(rows)] : Injective(q)}} :
        IsSortedDesc(s)}

\* Lines 145-161: the frames search_data can return.  A pattern that does not
\* compile raises inside str.contains; the except returns an empty frame.
search_data(d, input, type, year) ==
    IF ~ReCompiles(SearchPattern(input, type)) THEN {<<>>}
    ELSE SortValues(
           SelectSeq(SelectSeq(d, LAMBDA r : TextMatches(r, input, type)),
                     LAMBDA r : YearMatches(r, year)))

\* -------------------------------------------- inputs of a search_data call

\* The characters of search terms: digits, a letter, the pattern characters
\* "." and "(", and a blank.
TermChars == {"0", "6", "A", ".", "(", " "}

\* The raw rows of the tables queried: two years of one company, a company
\* with a 7-character code, a company with code 0.
QueryRowA == RawRow(IntCell(60), <<"A", "6">>, IntCell(2010), 5000)
QueryRowB == RawRow(IntCell(60), <<"A", "6">>, IntCell(2011), 5000)
QueryRowC ==
    RawRow(StrCell(<<"0", "0", "0", "0", "0", "6", "0">>), <<"a", ".">>,
           IntCell(2010), 5000)
QueryRowD == RawRow(IntCell(0), <<"0", " ", "A">>, IntCell(2010), 12346)

QueryRawRows == {QueryRowA, QueryRowB, QueryRowC, QueryRowD}

\* The datasets load_data produces from them.
QueryDatasets ==
    {CleanFrame(Frame(RequiredSet, rows)).data :
        rows \in SeqsUpTo(QueryRawRows, MaxRows)}

QueryYears == {AllYears, Year(2010), Year(2011), Year(2012)}

\* A call of search_data on a loaded dataset, about to be made.
InitSearch ==
    /\ pc = "call"
    /\ dataset \in QueryDatasets
    /\ args \in [search_input : SeqsUpTo(TermChars, MaxTermLen),
                 search_type : {"stock_code", "entity_name"},
                 selected_year : QueryYears]
    /\ ret = NoResults
    /\ file_ext = ".csv"
    /\ encPos = 1
    /\ tried = <<>>
    /\ df = NoFrame
    /\ data_result = Unset
    /\ SessionInit
    /\ execute_search = FALSE
    /\ reset_pressed = FALSE
    /\ shown = Shown("nothing", <<>>)

\* The call returns.
CallSearchData ==
    /\ pc = "call"
    /\ \E r \in search_data(dataset, args.search_input, args.search_type,
                            args.selected_year) :
         ret' = Results(r)
    /\ pc' = "ret"
    /\ UNCHANGED <<loadVars, data_result, dataset, sessionVars, shown, args>>

NextSearch == CallSearchData

SpecSearch == InitSearch /\ [][NextSearch]_vars

\* ------------------------------------------------- main: the rerun loop

\* Lines 231-232: display_df, a copy of the result re-indexed from 1.
DisplayFrame(rows) == [k \in 1..Len(rows) |-> [rows[k] EXCEPT !.i = k]]

\* Lines 202-242: what display_results renders for a result frame.
display_results(rows, view) ==
    IF rows = <<>> THEN Shown("no_match", <<>>)
    ELSE Shown(view, DisplayFrame(rows))

\* Lines 337-339: the first rows of a copy of the dataset, index shifted by 1.
SampleFrame(d) ==
    [k \in 1..(IF Len(d) < SampleRows THEN Len(d) ELSE SampleRows) |->
        [d[k] EXCEPT !.i = d[k].i + 1]]

\* Line 147: search_data filters and sorts result_df, a copy of df; the
\* caller's df is left as it was.
DfAfterSearchInPlace(d, input, type) ==
    SelectSeq(d, LAMBDA r : TextMatches(r, input, type))

DfAfterSearch(d, input, type) == d

\* Line 314: the caller-side check of the search input.
InputIsBlankNoStrip(input) == input = <<>>

InputIsBlank(input) == Strip(input) = <<>>

\* Line 292: the options of the year selectbox.
YearOptions(d) == {AllYears} \cup {Year(d[k].year) : k \in 1..Len(d)}

\* Lines 262-340: one run of the script past the load, given what the widgets
\* return in it: the radio, the text input, the selectbox, and the two buttons.
Script(type, input, year, execute, reset) ==
    LET input2 == IF reset THEN <<>> ELSE input
        year2 == IF reset THEN AllYears ELSE year
        stored == IF reset THEN NoResults ELSE search_results
    IN  /\ search_type' = type
        /\ search_input' = input2
        /\ selected_year' = year2
        /\ execute_search' = execute
        /\ reset_pressed' = reset
        /\ IF execute
           THEN IF InputIsBlank(input2)
                THEN /\ search_results' = stored
                     /\ shown' = Shown("warning", <<>>)
                     /\ UNCHANGED dataset
                ELSE /\ \E r \in search_data(dataset, input2, type, year2) :
                          /\ search_results' = Results(r)
                          /\ shown' = display_results(r, "results")
                     /\ dataset' = DfAfterSearch(dataset, input2, type)
           ELSE IF ~stored.none
           THEN /\ search_results' = stored
                /\ shown' = display_results(stored.rows, "history")
                /\ UNCHANGED dataset
           ELSE /\ search_results' = stored
                /\ shown' = Shown("sample", SampleFrame(dataset))
                /\ UNCHANGED dataset
        /\ pc' = "idle"
        /\ UNCHANGED <<loadVars, data_result, callVars>>

\* The tables of the sessions explored.
UIFrames ==
    {Frame(RequiredSet, <<QueryRowA, QueryRowB, QueryRowC>>),
     Frame(RequiredSet, <<QueryRowD, QueryRowA>>)}

\* A new session whose load has succeeded under the first encoding: main is at
\* line 262 of the first run of the script.
Init ==
    /\ pc = "ui"
    /\ file_ext = ".csv"
    /\ encPos = 1
    /\ df \in UIFrames
    /\ tried = <<[enc |-> encodings[1], out |-> df]>>
    /\ data_result = CleanFrame(df)
    /\ dataset = data_result.data
    /\ SessionInit
    /\ execute_search = FALSE
    /\ reset_pressed = FALSE
    /\ shown = Shown("info", <<>>)
    /\ args = NoCall
    /\ ret = NoResults

\* The rest of the first run: every widget returns its default.
FirstRun ==
    /\ pc = "ui"
    /\ Script(search_type, search_input, selected_year, FALSE, FALSE)

\* A rerun because the user chose a query mode.
RerunType ==
    /\ pc = "idle"
    /\ \E type \in {"stock_code", "entity_name"} :
         Script(type, search_input, selected_year, FALSE, FALSE)

\* A rerun because the user edited the search text.
RerunText ==
    /\ pc = "idle"
    /\ \E input \in SeqsUpTo(TermChars, MaxInputLen) :
         Script(search_type, input, selected_year, FALSE, FALSE)

\* A rerun because the user chose a year.
RerunYear ==
    /\ pc = "idle"
    /\ \E year \in YearOptions(dataset) :
         Script(search_type, search_input, year, FALSE, FALSE)

\* A rerun because the user pressed "execute query".
RerunExecute ==
    /\ pc = "idle"
    /\ Script(search_type, search_input, selected_year, TRUE, FALSE)

\* A rerun because the user pressed "reset".
RerunReset ==
    /\ pc = "idle"
    /\ Script(search_type, search_input, selected_year, FALSE, TRUE)

Next ==
    \/ FirstRun
    \/ RerunType
    \/ RerunText
    \/ RerunYear
    \/ RerunExecute
    \/ RerunReset

Spec == Init /\ [][Next]_vars

\* ================================================================ claims

Loaded == pc \in {"loaded", "halt", "ui"}

RowSet(rows) == {rows[k] : k \in 1..Len(rows)}

\* t occurs in s as a contiguous run of characters.
IsSubstring(t, s) ==
    \E k \in 0..(Len(s) - Len(t)) : \A i \in 1..Len(t) : t[i] = s[k + i]

\* ---- C1

\* C1 as stated: every stock_code of a successfully loaded dataset is exactly
\* 6 characters long and holds digits only, whatever the raw value was.
C1_SixDigits ==
    data_result.status = "success" =>
        \A k \in 1..Len(data_result.data) :
            /\ Len(data_result.data[k].code) = CodeWidth
            /\ AllDigits(data_result.data[k].code)

\* C1 amended: every stock_code of a successfully loaded dataset is the raw
\* value's string form left-padded with "0" to at least 6 characters; it is
\* exactly 6 characters of digits if and only if the raw value's string form
\* has at most 6 characters, all digits.
C1_PaddedCode ==
    data_result.status = "success" =>
        \A k \in 1..Len(data_result.data) :
            LET code == data_result.data[k].code
                s == AsTypeStr(df.rows[data_result.data[k].i + 1].code)
                pad == Len(code) - Len(s)
            IN  /\ Len(code) = (IF Len(s) > CodeWidth THEN Len(s) ELSE CodeWidth)
                /\ \A i \in 1..Len(code) :
                      code[i] = (IF i <= pad THEN "0" ELSE s[i - pad])
                /\ (Len(code) = CodeWidth /\ AllDigits(code))
                     <=> (Len(s) <= CodeWidth /\ AllDigits(s))

\* C1 witness: a loaded dataset holding a code longer than 6 characters, a
\* code with a non-digit, and a code that was padded.
C1_Witness ==
    /\ data_result.status = "success"
    /\ \E k \in 1..Len(data_result.data) : Len(data_result.data[k].code) > CodeWidth
    /\ \E k \in 1..Len(data_result.data) :
          /\ ~AllDigits(data_result.data[k].code)
          /\ Len(AsTypeStr(df.rows[data_result.data[k].i + 1].code)) < CodeWidth

\* ---- C2

\* C2 as stated: with no year filter, a record is in the result of search_data
\* if and only if the padded term (stock-code mode) or the lower-cased term
\* (entity-name mode) occurs literally in its stock_code or lower-cased name.
C2_LiteralSubstring ==
    (pc = "ret" /\ args.selected_year = AllYears) =>
        \A k \in 1..Len(dataset) :
            (dataset[k] \in RowSet(ret.rows)) <=>
                IF args.search_type = "stock_code"
                THEN IsSubstring(ZFill(Strip(args.search_input), CodeWidth),
                                 dataset[k].code)
                ELSE IsSubstring(Lower(Strip(args.search_input)),
                                 Lower(dataset[k].name))

\* ---- C3

\* C3 as stated: search_data returns no record when the term is empty after
\* trimming.
C3_EmptyTermEmptyResult ==
    (pc = "ret" /\ Strip(args.search_input) = <<>>) => ret.rows = <<>>

\* C3 amended: search_data has no guard for an empty term: when the term is
\* empty after trimming it returns, in entity-name mode, every record that
\* passes the year filter, and in stock-code mode the records passing the year
\* filter whose stock_code contains "000000".
C3_EmptyTermResult ==
    (pc = "ret" /\ Strip(args.search_input) = <<>>) =>
        RowSet(ret.rows) =
            {r \in RowSet(dataset) :
                /\ args.selected_year.all \/ r.year = args.selected_year.y
                /\ \/ args.search_type = "entity_name"
                   \/ IsSubstring(<<"0", "0", "0", "0", "0", "0">>, r.code)}

\* C3 witness: an entity-name call with a blank term has returned the whole of
\* a dataset of several records; not all of them hold "000000" in their code.
C3_Witness ==
    /\ pc = "ret"
    /\ Strip(args.search_input) = <<>>
    /\ args.search_type = "entity_name"
    /\ Len(dataset) > 1
    /\ RowSet(ret.rows) = RowSet(dataset)
    /\ \E k \in 1..Len(dataset) :
          ~IsSubstring(<<"0", "0", "0", "0", "0", "0">>, dataset[k].code)

\* ---- C4

\* C4 as stated: the result is in descending year and records of one year
\* keep the relative order they have in the dataset.
C4_StableSort ==
    pc = "ret" =>
        \A i, j \in 1..Len(ret.rows) :
            i < j =>
                /\ ret.rows[i].year >= ret.rows[j].year
                /\ ret.rows[i].year = ret.rows[j].year
                     => ret.rows[i].i < ret.rows[j].i

\* C4 amended: the result is in descending year and holds exactly the records
\* that pass the text and year filters, each once; the relative order of
\* records of one year is not promised.
C4_SortedDesc ==
    pc = "ret" =>
        /\ \A i, j \in 1..Len(ret.rows) :
              i < j => ret.rows[i].year >= ret.rows[j].year
        /\ \A i, j \in 1..Len(ret.rows) :
              ret.rows[i] = ret.rows[j] => i = j
        /\ RowSet(ret.rows) =
              IF ReCompiles(SearchPattern(args.search_input, args.search_type))
              THEN {r \in RowSet(dataset) :
                      /\ TextMatches(r, args.search_input, args.search_type)
                      /\ args.selected_year.all \/ r.year = args.selected_year.y}
              ELSE {}

\* C4 witness: a result whose rows were reordered: a later year first, from a
\* dataset that holds it after the earlier year.
C4_Witness ==
    /\ pc = "ret"
    /\ Len(ret.rows) > 1
    /\ ret.rows[1].year > ret.rows[2].year
    /\ ret.rows[1].i > ret.rows[2].i

\* ---- C5

\* The records matching the text predicate across all years.
C5_MatchedAllYears ==
    IF ReCompiles(SearchPattern(args.search_input, args.search_type))
    THEN {r \in RowSet(dataset) :
            TextMatches(r, args.search_input, args.search_type)}
    ELSE {}

\* C5: with a year filter y every record of the result has year y and the
\* result is the part of the all-years match set with that year (empty when no
\* matching record carries y); with AllYears it is the all-years match set.
C5_YearFilter ==
    pc = "ret" =>
        /\ RowSet(ret.rows) \subseteq C5_MatchedAllYears
        /\ args.selected_year.all => RowSet(ret.rows) = C5_MatchedAllYears
        /\ ~args.selected_year.all =>
              /\ \A k \in 1..Len(ret.rows) : ret.rows[k].year = args.selected_year.y
              /\ RowSet(ret.rows) =
                    {r \in C5_MatchedAllYears : r.year = args.selected_year.y}
              /\ (\A r \in C5_MatchedAllYears : r.year # args.selected_year.y)
                    => ret.rows = <<>>

\* C5 witness: a call with a specific year returned some records and left out
\* a record that matches the text but carries another year.
C5_Witness ==
    /\ pc = "ret"
    /\ ~args.selected_year.all
    /\ ret.rows # <<>>
    /\ \E r \in C5_MatchedAllYears : r.year # args.selected_year.y

\* ---- C6

\* Whether the table read, if any, can be cleaned: it has every required
\* column and every year is coercible.
C6_Cleanable ==
    /\ ~df.none
    /\ RequiredSet \subseteq df.cols
    /\ \A k \in 1..Len(df.rows) : IntCoercible(df.rows[k].year)

\* C6: once load_data has returned, its result is an error unless a table was
\* read that has every required column and only coercible years; an error
\* result has a non-empty message and no dataset; after an error main shows
\* the error only, holds no dataset and stores no query result.
C6_ErrorsAreTerminal ==
    /\ Loaded => data_result.status \in {"error", "success"}
    /\ Loaded => (data_result.status = "success" <=> C6_Cleanable)
    /\ data_result.status = "error" =>
          /\ data_result.msg # <<>>
          /\ data_result.msg[1] # ""
          /\ "data" \notin DOMAIN data_result
          /\ dataset = <<>>
          /\ pc \in {"loaded", "halt"}
    /\ pc = "halt" =>
          /\ data_result.status = "error"
          /\ shown = Shown("error", <<>>)
          /\ search_results = NoResults

\* C6 witness: main has stopped on a table with every column in which one year
\* does not coerce while another row is clean and in range.
C6_Witness ==
    /\ pc = "halt"
    /\ ~df.none
    /\ RequiredSet \subseteq df.cols
    /\ \E k \in 1..Len(df.rows) : ~IntCoercible(df.rows[k].year)
    /\ \E k \in 1..Len(df.rows) :
          /\ IntCoercible(df.rows[k].year)
          /\ AsTypeInt(df.rows[k].year) >= YearMin
          /\ AsTypeInt(df.rows[k].year) <= YearMax

\* ---- C7

\* C7: every year of a successfully loaded dataset is an integer within
\* [1999, 2023], and a raw row is kept if and only if its coerced year is.
C7_YearRange ==
    data_result.status = "success" =>
        /\ \A k \in 1..Len(data_result.data) :
              /\ data_result.data[k].year \in Int
              /\ data_result.data[k].year >= YearMin
              /\ data_result.data[k].year <= YearMax
              /\ data_result.data[k].year
                   = AsTypeInt(df.rows[data_result.data[k].i + 1].year)
        /\ \A k \in 1..Len(df.rows) :
              (\E j \in 1..Len(data_result.data) : data_result.data[j].i = k - 1)
                 <=> /\ AsTypeInt(df.rows[k].year) >= YearMin
                     /\ AsTypeInt(df.rows[k].year) <= YearMax

\* C7 witness: a load kept a row whose raw year 2023.7 lies outside the range
\* before coercion and inside after it, and dropped another row.
C7_Witness ==
    /\ data_result.status = "success"
    /\ \E k \in 1..Len(data_result.data) :
          df.rows[data_result.data[k].i + 1].year = FloatCell(20237)
    /\ Len(data_result.data) < Len(df.rows)

\* ---- C8

\* C8: the encodings are tried in the order of the list, no encoding is tried
\* after one has parsed, the table used is the one the first parsing encoding
\* gave, and the "cannot detect the encoding" error is returned if and only if
\* all four were tried and failed.
C8_FirstParsingEncoding ==
    /\ Len(tried) <= Len(encodings)
    /\ \A i \in 1..Len(tried) :
          /\ tried[i].enc = encodings[i]
          /\ i < Len(tried) => tried[i].out.none
    /\ (file_ext = ".csv" /\ pc \in {"clean", "loaded", "halt", "ui"} /\ ~df.none) =>
          /\ tried # <<>>
          /\ df = tried[Len(tried)].out
    /\ (file_ext = ".csv" /\ pc \in {"clean", "loaded", "halt", "ui"} /\ df.none) =>
          \A i \in 1..Len(tried) : tried[i].out.none
    /\ Loaded =>
          ((data_result.status = "error"
              /\ data_result.msg = <<"cannot detect the CSV encoding">>)
           <=> (Len(tried) = Len(encodings)
                  /\ \A i \in 1..Len(tried) : tried[i].out.none))

\* C8 witness: a load that succeeded on the third encoding after two failures.
C8_Witness ==
    /\ pc = "ui"
    /\ Len(tried) = 3
    /\ tried[1].out.none
    /\ tried[2].out.none
    /\ ~tried[3].out.none
    /\ df = tried[3].out

\* ---- C9

\* C9: at every point of a session the dataset is the one normalization
\* produced from the table read: no query, display, export, reset or sample
\* view changes its records or their order.
C9_DatasetUnchanged ==
    pc \in {"ui", "idle"} => dataset = CleanFrame(df).data

\* C9 witness: a query that raised inside search_data has been run on a
\* dataset of several records (the stored result is the empty frame).
C9_Witness ==
    /\ pc = "idle"
    /\ execute_search
    /\ ~ReCompiles(SearchPattern(search_input, search_type))
    /\ search_results = Results(<<>>)
    /\ Len(dataset) > 1

\* ---- C10

\* C10: in every rerun the stored search_results becomes a result of
\* search_data for the session's input, mode and year when "execute query" was
\* pressed with a non-blank input; becomes None, with the input emptied, the
\* year set to AllYears and the sample view shown, when "reset" was pressed;
\* and is unchanged otherwise.
C10_ResultsChange ==
    [][(pc \in {"ui", "idle"}) =>
         (IF execute_search' /\ Strip(search_input') # <<>>
          THEN /\ ~search_results'.none
               /\ search_results'.rows
                    \in search_data(dataset, search_input', search_type',
                                    selected_year')
          ELSE IF reset_pressed'
          THEN /\ search_results' = NoResults
               /\ search_input' = <<>>
               /\ selected_year' = AllYears
               /\ shown'.view = "sample"
          ELSE search_results' = search_results)]_vars

\* C10 witness: "execute query" was pressed with an input of blanks while a
\* result of an earlier query is stored.
C10_Witness ==
    /\ pc = "idle"
    /\ execute_search
    /\ search_input # <<>>
    /\ Strip(search_input) = <<>>
    /\ ~search_results.none
    /\ search_results.rows # <<>>
    /\ shown.view = "warning"

====
